---- MODULE Spec2Model ----
(***************************************************************************)
(* Run coordination of the Fabric data portal: the run_lock row, the       *)
(* pipeline_runs / run_events / run_restores tables, the external Fabric   *)
(* job, and the three page handlers that drive them (Import: "Run          *)
(* Pipeline", Monitor: "Refresh Status", Archive: "Restore").              *)
(*                                                                         *)
(* Every Streamlit session is a process.  A handler is a sequence of       *)
(* steps, one per store statement or HTTP call; each store statement is    *)
(* its own transaction (db.get_cursor commits on exit), so the steps of    *)
(* different sessions interleave freely.  A store call or HTTP call that   *)
(* raises has no effect on the store (the helpers roll back).              *)
(***************************************************************************)
EXTENDS Integers, Sequences, FiniteSets, TLC

\* ---------------------------------------------------------------- bounds
MaxOps == 2           \* handler invocations (button clicks) in one behaviour

\* SQL NULL / Python None, for ids and timestamps alike
NULL == 0

\* A call is one handler invocation (one script run after a button click) of
\* some browser session; calls are numbered in the order they start, and any
\* number of them may be in progress at once
Calls == 1..MaxOps

\* ------------------------------------------------------------- statuses
ActiveStatuses == {"SUBMITTED", "QUEUED", "RUNNING"}
TerminalStatuses == {"SUCCEEDED", "FAILED"}

\* Status strings the Fabric job instance reports in its body
FabricJobStatuses ==
  {"NotStarted", "InProgress", "Completed", "Failed", "Cancelled", "Deduped"}
FabricTerminal == {"Completed", "Failed", "Cancelled", "Deduped"}

\* ... with a string outside the table treated as a failure
map_fabric_status_unmapped_failed(fabric_status) ==
  CASE fabric_status = "NotStarted" -> "QUEUED"
    [] fabric_status = "InProgress" -> "RUNNING"
    [] fabric_status = "Completed" -> "SUCCEEDED"
    [] OTHER -> "FAILED"

map_fabric_status(fabric_status) ==
  CASE fabric_status = "NotStarted" -> "QUEUED"
    [] fabric_status = "InProgress" -> "RUNNING"
    [] fabric_status = "Completed" -> "SUCCEEDED"
    [] fabric_status = "Failed" -> "FAILED"
    [] fabric_status = "Cancelled" -> "FAILED"
    [] fabric_status = "Deduped" -> "FAILED"
    [] OTHER -> "RUNNING"

\* ------------------------------------------------------------- run_lock
FreeLock == [run_id |-> NULL, locked_at |-> NULL, locked_by |-> NULL]

\* is_locked: (held, row)
is_locked(l) == l.run_id # NULL

\* UPDATE run_lock SET ... WHERE lock_key = ... AND run_id IS NULL
\* result: the row after the statement, and rowcount = 1
acquire_lock_unconditional(l, run_id, at, by) ==
  [lock |-> [run_id |-> run_id, locked_at |-> at, locked_by |-> by],
   acquired |-> TRUE]

acquire_lock(l, run_id, at, by) ==
  IF l.run_id = NULL
    THEN [lock |-> [run_id |-> run_id, locked_at |-> at, locked_by |-> by],
          acquired |-> TRUE]
    ELSE [lock |-> l, acquired |-> FALSE]

\* UPDATE run_lock SET run_id = NULL, ... WHERE lock_key = ... AND run_id = %s
release_lock_any_holder(l, run_id) ==
  IF l.run_id # NULL
    THEN [lock |-> FreeLock, released |-> TRUE]
    ELSE [lock |-> l, released |-> FALSE]

\* ... with a WHERE clause that matches no row
release_lock_no_match(l, run_id) == [lock |-> l, released |-> FALSE]

\* ... clearing the row and returning True without looking at rowcount
release_lock_always_true(l, run_id) == [lock |-> FreeLock, released |-> TRUE]

release_lock(l, run_id) ==
  IF l.run_id = run_id
    THEN [lock |-> FreeLock, released |-> TRUE]
    ELSE [lock |-> l, released |-> FALSE]

\* ... with a WHERE clause that matches no row
force_release_lock_no_match(l) == [lock |-> l, released |-> TRUE]

\* force_release_lock: UPDATE run_lock SET run_id = NULL, ... WHERE lock_key
\* = ...; returns True
force_release_lock(l) == [lock |-> FreeLock, released |-> TRUE]

\* -------------------------------------------------------- pipeline_runs
\* ... with the status column left to a default instead of the argument
insert_pipeline_run_default_status(run_id, triggered_by, location_url, status, at) ==
  [run_id |-> run_id, created_at |-> at, triggered_by |-> triggered_by,
   fabric_job_location_url |-> location_url, status |-> "QUEUED",
   started_at |-> NULL, finished_at |-> NULL, error_message |-> NULL,
   fabric_job_id |-> NULL, kpis |-> NULL]

\* insert_pipeline_run: the new row (columns not given are NULL)
insert_pipeline_run(run_id, triggered_by, location_url, status, at) ==
  [run_id |-> run_id, created_at |-> at, triggered_by |-> triggered_by,
   fabric_job_location_url |-> location_url, status |-> status,
   started_at |-> NULL, finished_at |-> NULL, error_message |-> NULL,
   fabric_job_id |-> NULL, kpis |-> NULL]

\* ... without the derived timestamps
update_run_status_status_only(row, status, error_message, fabric_job_id, kpis, at) ==
  [row EXCEPT
     !.status = status,
     !.error_message = IF error_message # NULL THEN error_message ELSE @,
     !.fabric_job_id = IF fabric_job_id # NULL THEN fabric_job_id ELSE @,
     !.kpis = IF kpis # NULL THEN kpis ELSE @]

\* ... with every optional column set, also from an argument that is None
update_run_status_null_overwrites(row, status, error_message, fabric_job_id, kpis, at) ==
  [row EXCEPT
     !.status = status,
     !.started_at = IF status = "RUNNING" THEN at ELSE @,
     !.finished_at = IF status \in TerminalStatuses THEN at ELSE @,
     !.error_message = error_message,
     !.fabric_job_id = fabric_job_id,
     !.kpis = kpis]

\* update_run_status: the row after the UPDATE (no page passes
\* error_message)
update_run_status(row, status, error_message, fabric_job_id, kpis, at) ==
  [row EXCEPT
     !.status = status,
     !.started_at = IF status = "RUNNING" THEN at ELSE @,
     !.finished_at = IF status \in TerminalStatuses THEN at ELSE @,
     !.error_message = IF error_message # NULL THEN error_message ELSE @,
     !.fabric_job_id = IF fabric_job_id # NULL THEN fabric_job_id ELSE @,
     !.kpis = IF kpis # NULL THEN kpis ELSE @]

\* Rows of rs with the greatest created_at among the ids in S (ORDER BY
\* created_at DESC LIMIT 1; rows with equal created_at come in any order)
Newest(rs, S) == {r \in S : \A q \in S : rs[q].created_at <= rs[r].created_at}

\* get_active_run: the ids the query may return (empty: None)
get_active_run(rs) ==
  Newest(rs, {r \in DOMAIN rs : rs[r].status \in ActiveStatuses})

\* list_runs(limit=1): the ids the query may return first (empty: no rows)
list_runs(rs) == Newest(rs, DOMAIN rs)

\* ----------------------------------------------------------- run_events
\* append_event: the table after the INSERT
append_event(evs, run_id, event_type, message, at) ==
  Append(evs, [run_id |-> run_id, event_type |-> event_type,
               message |-> message, event_time |-> at])

EventsOf(evs, run_id) == SelectSeq(evs, LAMBDA e : e.run_id = run_id)

\* ... without the ORDER BY clause: the rows come in any order
get_events_unordered(evs, run_id) ==
  LET rows == {i \in DOMAIN evs : evs[i].run_id = run_id}
      n == Cardinality(rows)
  IN {[k \in 1..n |-> evs[f[k]]] :
        f \in {g \in [1..n -> rows] : \A j, k \in 1..n : j # k => g[j] # g[k]}}

\* get_events: the lists the query may return, SELECT * FROM run_events
\* WHERE run_id = %s ORDER BY event_time ASC (rows with equal event_time
\* come in any order)
get_events(evs, run_id) ==
  LET rows == {i \in DOMAIN evs : evs[i].run_id = run_id}
      n == Cardinality(rows)
  IN {[k \in 1..n |-> evs[f[k]]] :
        f \in {g \in [1..n -> rows] :
                /\ \A j, k \in 1..n : j # k => g[j] # g[k]
                /\ \A j, k \in 1..n :
                     j < k => evs[g[j]].event_time <= evs[g[k]].event_time}}

\* --------------------------------------------------------- run_restores
\* ... with the two run ids in each other's column
insert_restore_swapped(rst, restored_by, source_run_id, target_run_id, at) ==
  Append(rst, [restored_at |-> at, restored_by |-> restored_by,
               source_run_id |-> target_run_id, target_run_id |-> source_run_id])

\* insert_restore: the table after the INSERT
insert_restore(rst, restored_by, source_run_id, target_run_id, at) ==
  Append(rst, [restored_at |-> at, restored_by |-> restored_by,
               source_run_id |-> source_run_id, target_run_id |-> target_run_id])

\* ---------------------------------------------------------------- state
VARIABLES
  lock,      \* the single run_lock row
  runs,      \* pipeline_runs: run_id -> row
  events,    \* run_events, in insertion order
  restores,  \* run_restores, in insertion order
  job,       \* Fabric job instances: run_id parameter -> job status
  now,       \* wall clock: the value the next datetime.now() returns
  nextId,    \* uuid4() values drawn so far
  ops,       \* calls started so far
  pc,        \* per call: position in its handler
  loc,       \* per call: the handler's local variables and its outcome
  race       \* history: acquire_lock outcomes since the lock was last free

vars == <<lock, runs, events, restores, job, now, nextId, ops, pc, loc, race>>
store == <<lock, runs, events, restores>>

NoLoc ==
  [op |-> "none", run_id |-> NULL, status |-> "none", location_url |-> "none",
   fabric_status |-> "none", new_status |-> "none", fabric_job_id |-> NULL,
   error_message |-> NULL, kpis_data |-> NULL, target |-> NULL, acquired |-> "none", released |-> "none",
   warned |-> FALSE, locked |-> "none", result |-> "none"]

NoRace == [wins |-> 0, lost |-> FALSE]

\* The user_name of a call's session (sidebar text input)
User(p) == p

\* The deployment starts with the bootstrap lock row and empty tables
InitFresh ==
  /\ lock = FreeLock
  /\ runs = <<>>
  /\ events = <<>>
  /\ job = <<>>
  /\ now = 1
  /\ nextId = 0
  /\ race = NoRace

\* ... or it has one run in progress, left by an earlier Run Pipeline click
\* whose steps all succeeded
InitAdmitted ==
  /\ lock = acquire_lock(FreeLock, 1, 1, 1).lock
  /\ runs = (1 :> insert_pipeline_run(1, 1, "url", "SUBMITTED", 2))
  /\ events = append_event(<<>>, 1, "STATUS_CHANGE", "submitted", 3)
  /\ job = (1 :> "NotStarted")
  /\ now = 4
  /\ nextId = 1
  /\ race = [wins |-> 1, lost |-> FALSE]

Init ==
  /\ InitFresh \/ InitAdmitted
  /\ restores = <<>>
  /\ ops = 0
  /\ pc = [p \in Calls |-> "idle"]
  /\ loc = [p \in Calls |-> NoLoc]

Goto(p, label) == pc' = [pc EXCEPT ![p] = label]

\* Calls start in the order of their numbers
Ready(p) == pc[p] = "idle" /\ p = ops + 1

\* The locals a handler leaves behind when its script run ends: what it
\* reported to the user; the rest is dead
Outcome(l, result) ==
  [NoLoc EXCEPT !.op = l.op, !.run_id = l.run_id, !.status = l.status,
                !.fabric_status = l.fabric_status,
                !.new_status = l.new_status, !.acquired = l.acquired,
                !.target = l.target, !.released = l.released, !.warned = l.warned,
                !.result = result]

\* datetime.now(timezone.utc) moves on with every committed statement, so no
\* two statements store the same instant
Tock == now' = IF store' # store THEN now + 1 ELSE now

\* -------------------------------------------- Import page: Run Pipeline
\* The button click: run_id = uuid.uuid4()
AdmitClick(p) ==
  /\ Ready(p)
  /\ ops' = ops + 1
  /\ nextId' = nextId + 1
  /\ loc' = [loc EXCEPT ![p] = [NoLoc EXCEPT !.op = "admit", !.run_id = nextId + 1]]
  /\ Goto(p, "acquire")
  /\ UNCHANGED <<store, job, race>>
  /\ Tock

\* acquired = locking.acquire_lock(run_id, user_name); not acquired: st.stop()
AdmitAcquire(p) ==
  /\ pc[p] = "acquire"
  /\ \/ LET r == acquire_lock(lock, loc[p].run_id, now, User(p)) IN
          /\ lock' = r.lock
          /\ IF r.acquired
               THEN /\ loc' = [loc EXCEPT ![p].acquired = "yes"]
                    /\ race' = [race EXCEPT !.wins = @ + 1]
                    /\ Goto(p, "trigger")
               ELSE /\ loc' = [loc EXCEPT ![p] =
                                 Outcome([@ EXCEPT !.acquired = "no"], "contention")]
                    /\ race' = [race EXCEPT !.lost = TRUE]
                    /\ Goto(p, "done")
     \/ \* the store call raises: outside the try block, the script run ends
        /\ loc' = [loc EXCEPT ![p] =
                     Outcome([@ EXCEPT !.acquired = "raised"], "store_error")]
        /\ Goto(p, "done")
        /\ UNCHANGED <<lock, race>>
  /\ UNCHANGED <<runs, events, restores, job, nextId, ops>>
  /\ Tock

\* AdmitTrigger with the exception of trigger_pipeline ignored
AdmitTrigger_error_ignored(p) ==
  /\ pc[p] = "trigger"
  /\ \/ \E url \in {"url", ""} :
          /\ job' = job @@ (loc[p].run_id :> "NotStarted")
          /\ loc' = [loc EXCEPT ![p].location_url = url]
     \/ /\ loc' = [loc EXCEPT ![p].location_url = ""]
        /\ UNCHANGED job
  /\ Goto(p, "insert")
  /\ UNCHANGED <<store, nextId, ops, race>>
  /\ Tock

\* fabric_pipelines.trigger_pipeline(...): 202 with a Location header (or
\* none: location_url = ""), or an exception (HTTP error, status # 202)
AdmitTrigger(p) ==
  /\ pc[p] = "trigger"
  /\ \/ \E url \in {"url", ""} :
          /\ job' = job @@ (loc[p].run_id :> "NotStarted")
          /\ loc' = [loc EXCEPT ![p].location_url = url]
          /\ Goto(p, "insert")
     \/ /\ Goto(p, "release_on_fail")
        /\ UNCHANGED <<job, loc>>
  /\ UNCHANGED <<store, nextId, ops, race>>
  /\ Tock

\* AdmitInsertRun with the failure handled like a failed submission
AdmitInsertRun_release_on_error(p) ==
  /\ pc[p] = "insert"
  /\ \/ /\ runs' = runs @@ (loc[p].run_id :>
                     insert_pipeline_run(loc[p].run_id, User(p),
                                         loc[p].location_url, "SUBMITTED", now))
        /\ Goto(p, "event")
     \/ /\ Goto(p, "release_on_fail")
        /\ UNCHANGED runs
  /\ UNCHANGED <<loc, lock, events, restores, job, nextId, ops, race>>
  /\ Tock

\* db.insert_pipeline_run(..., status="SUBMITTED"); on an exception the
\* append_event of the same try block is skipped and a warning is shown
\* before the success message
AdmitInsertRun(p) ==
  /\ pc[p] = "insert"
  /\ \/ /\ runs' = runs @@ (loc[p].run_id :>
                     insert_pipeline_run(loc[p].run_id, User(p),
                                         loc[p].location_url, "SUBMITTED", now))
        /\ Goto(p, "event")
        /\ UNCHANGED loc
     \/ /\ loc' = [loc EXCEPT ![p] = Outcome([@ EXCEPT !.warned = TRUE], "ok")]
        /\ Goto(p, "done")
        /\ UNCHANGED runs
  /\ UNCHANGED <<lock, events, restores, job, nextId, ops, race>>
  /\ Tock

\* db.append_event(run_id, "STATUS_CHANGE", "Pipeline submitted ...")
AdmitAppendEvent(p) ==
  /\ pc[p] = "event"
  /\ \E ok \in BOOLEAN :
       /\ events' = IF ok THEN append_event(events, loc[p].run_id, "STATUS_CHANGE",
                                            "submitted", now)
                          ELSE events
       /\ loc' = [loc EXCEPT ![p] = Outcome([@ EXCEPT !.warned = ~ok], "ok")]
  /\ Goto(p, "done")
  /\ UNCHANGED <<lock, runs, restores, job, nextId, ops, race>>
  /\ Tock

\* except Exception: locking.release_lock(run_id), best effort; st.error
AdmitReleaseOnFail(p) ==
  /\ pc[p] = "release_on_fail"
  /\ \/ LET r == release_lock(lock, loc[p].run_id) IN
          /\ lock' = r.lock
          /\ race' = IF r.released THEN NoRace ELSE race
          /\ loc' = [loc EXCEPT ![p] =
                       Outcome([@ EXCEPT !.released = IF r.released THEN "yes" ELSE "no"],
                               "trigger_error")]
     \/ /\ loc' = [loc EXCEPT ![p] =
                     Outcome([@ EXCEPT !.released = "raised"], "trigger_error")]
        /\ UNCHANGED <<lock, race>>
  /\ Goto(p, "done")
  /\ UNCHANGED <<runs, events, restores, job, nextId, ops>>
  /\ Tock

Admit(p) ==
  \/ AdmitClick(p)
  \/ AdmitAcquire(p)
  \/ AdmitTrigger(p)
  \/ AdmitInsertRun(p)
  \/ AdmitAppendEvent(p)
  \/ AdmitReleaseOnFail(p)

\* --------------------------------------------------- the Fabric job
\* The job instance moves on by itself (the portal cannot cancel it); only a
\* poll observes it, so its progress is taken at the poll: the statuses the
\* job can have reached from status s
JobReach(s) ==
  CASE s = "NotStarted" -> FabricJobStatuses
    [] s = "InProgress" -> {"InProgress", "Completed", "Failed", "Cancelled"}
    [] OTHER -> {s}

\* ------------------------------------------ Monitor page: Refresh Status
\* ... with the lock released after every change of status
AfterChange_release_always(new_status) ==
  IF new_status = "SUCCEEDED" THEN "kpi" ELSE "release"

\* The step that follows the status-change block for new_status
AfterChange(new_status) ==
  IF new_status = "SUCCEEDED" THEN "kpi"
  ELSE IF new_status \in TerminalStatuses THEN "release"
  ELSE "done"

\* AdvanceClick without the test of location_url: the poll is attempted
AdvanceClick_no_url_check(p) ==
  /\ Ready(p)
  /\ ops' = ops + 1
  /\ \/ /\ loc' = [loc EXCEPT ![p] = Outcome([NoLoc EXCEPT !.op = "advance"], "no_run")]
        /\ Goto(p, "done")
     \/ \E r \in (IF get_active_run(runs) # {} THEN get_active_run(runs)
                                                ELSE list_runs(runs)) :
          LET seen == [NoLoc EXCEPT !.op = "advance", !.run_id = r,
                         !.status = runs[r].status,
                         !.location_url = runs[r].fabric_job_location_url] IN
          IF runs[r].status \notin ActiveStatuses
            THEN /\ loc' = [loc EXCEPT ![p] = Outcome(seen, "not_active")]
                 /\ Goto(p, "done")
          ELSE /\ loc' = [loc EXCEPT ![p] = seen]
               /\ Goto(p, "poll")
  /\ UNCHANGED <<store, job, nextId, race>>
  /\ Tock

\* The click reruns the script: run = get_active_run() or list_runs(1)[0];
\* the button exists only for an active run; polling needs location_url
AdvanceClick(p) ==
  /\ Ready(p)
  /\ ops' = ops + 1
  /\ \/ \* the query raises, or no run was ever recorded: st.stop()
        /\ loc' = [loc EXCEPT ![p] = Outcome([NoLoc EXCEPT !.op = "advance"], "no_run")]
        /\ Goto(p, "done")
     \/ \E r \in (IF get_active_run(runs) # {} THEN get_active_run(runs)
                                                ELSE list_runs(runs)) :
          LET seen == [NoLoc EXCEPT !.op = "advance", !.run_id = r,
                         !.status = runs[r].status,
                         !.location_url = runs[r].fabric_job_location_url] IN
          IF runs[r].status \notin ActiveStatuses
            THEN /\ loc' = [loc EXCEPT ![p] = Outcome(seen, "not_active")]
                 /\ Goto(p, "done")
          ELSE IF runs[r].fabric_job_location_url = ""
            THEN /\ loc' = [loc EXCEPT ![p] = Outcome(seen, "no_url")]
                 /\ Goto(p, "done")
          ELSE /\ loc' = [loc EXCEPT ![p] = seen]
               /\ Goto(p, "poll")
  /\ UNCHANGED <<store, job, nextId, race>>
  /\ Tock

\* poll_job_status(location_url): what one GET of a job instance with
\* status s and id r can yield, as <<status, raw.get("id")>>
\*   200 / 202 with a body: the body's status and id
\*   202 without a JSON body: "InProgress"
\*   200 with a body that has no "status": "Unknown"
\*   any other HTTP status: "PollError" (returned, not raised)
poll_job_status(s, r) ==
  {<<s, r>>, <<"Unknown", NULL>>, <<"PollError", NULL>>}
    \cup (IF s \in FabricTerminal THEN {} ELSE {<<"InProgress", NULL>>})

\* ... with the status-change block entered whatever new_status is
AdvancePoll_always_changed(p) ==
  /\ pc[p] = "poll"
  /\ \/ \E s \in JobReach(job[loc[p].run_id]) :
        \E res \in poll_job_status(s, loc[p].run_id) :
          /\ job' = [job EXCEPT ![loc[p].run_id] = s]
          /\ loc' = [loc EXCEPT ![p].fabric_status = res[1],
                                ![p].new_status = map_fabric_status(res[1]),
                                ![p].fabric_job_id = res[2]]
          /\ Goto(p, "update")
     \/ /\ Goto(p, "log_error")
        /\ UNCHANGED <<job, loc>>
  /\ UNCHANGED <<store, nextId, ops, race>>
  /\ Tock

\* poll_result = poll_job_status(...); new_status = map_fabric_status(...)
AdvancePoll(p) ==
  /\ pc[p] = "poll"
  /\ \/ \E s \in JobReach(job[loc[p].run_id]) :
        \E res \in poll_job_status(s, loc[p].run_id) :
          LET new_status == map_fabric_status(res[1]) IN
          /\ job' = [job EXCEPT ![loc[p].run_id] = s]
          /\ IF new_status # loc[p].status
               THEN /\ loc' = [loc EXCEPT ![p].fabric_status = res[1],
                                          ![p].new_status = new_status,
                                          ![p].fabric_job_id = res[2]]
                    /\ Goto(p, "update")
               ELSE /\ loc' = [loc EXCEPT ![p] =
                                 Outcome([@ EXCEPT !.fabric_status = res[1],
                                                   !.new_status = new_status],
                                         "unchanged")]
                    /\ Goto(p, "done")
     \/ \* requests raises, or the body is not JSON: the outer except
        /\ Goto(p, "log_error")
        /\ UNCHANGED <<job, loc>>
  /\ UNCHANGED <<store, nextId, ops, race>>
  /\ Tock

\* The locals after the status-change block, whose next step is `next`
Changed(l, next) == IF next = "done" THEN Outcome(l, "transitioned") ELSE l

\* AdvanceUpdate with the exception left to the outer handler
AdvanceUpdate_error_aborts(p) ==
  /\ pc[p] = "update"
  /\ \/ /\ runs' = [runs EXCEPT ![loc[p].run_id] =
                      update_run_status(@, loc[p].new_status, NULL,
                                        loc[p].fabric_job_id, NULL, now)]
        /\ Goto(p, "status_event")
     \/ /\ Goto(p, "log_error")
        /\ UNCHANGED runs
  /\ UNCHANGED <<loc, lock, events, restores, job, nextId, ops, race>>
  /\ Tock

\* db.update_run_status(run_id, new_status, fabric_job_id=...); an exception
\* skips the append_event of the same try block and shows a warning
AdvanceUpdate(p) ==
  /\ pc[p] = "update"
  /\ \/ /\ runs' = [runs EXCEPT ![loc[p].run_id] =
                      update_run_status(@, loc[p].new_status, NULL,
                                        loc[p].fabric_job_id, NULL, now)]
        /\ Goto(p, "status_event")
        /\ UNCHANGED loc
     \/ /\ loc' = [loc EXCEPT ![p] = Changed([@ EXCEPT !.warned = TRUE],
                                             AfterChange(loc[p].new_status))]
        /\ Goto(p, AfterChange(loc[p].new_status))
        /\ UNCHANGED runs
  /\ UNCHANGED <<lock, events, restores, job, nextId, ops, race>>
  /\ Tock

\* db.append_event(run_id, "STATUS_CHANGE", "Status changed: old -> new")
AdvanceEvent(p) ==
  /\ pc[p] = "status_event"
  /\ \E ok \in BOOLEAN :
       /\ events' = IF ok THEN append_event(events, loc[p].run_id, "STATUS_CHANGE",
                                            "status_changed", now)
                          ELSE events
       /\ loc' = [loc EXCEPT ![p] = Changed([@ EXCEPT !.warned = ~ok],
                                            AfterChange(loc[p].new_status))]
  /\ Goto(p, AfterChange(loc[p].new_status))
  /\ UNCHANGED <<lock, runs, restores, job, nextId, ops, race>>
  /\ Tock

\* kpis_data = get_run_kpis(run_id) or get_current_kpis(): a blob, or None
\* or an exception (swallowed)
AdvanceKpi(p) ==
  /\ pc[p] = "kpi"
  /\ \/ /\ loc' = [loc EXCEPT ![p].kpis_data = loc[p].run_id]
        /\ Goto(p, "kpi_update")
     \/ /\ Goto(p, "release")
        /\ UNCHANGED loc
  /\ UNCHANGED <<store, job, nextId, ops, race>>
  /\ Tock

\* AdvanceKpiUpdate with the exception left to the outer handler
AdvanceKpiUpdate_error_aborts(p) ==
  /\ pc[p] = "kpi_update"
  /\ \/ /\ runs' = [runs EXCEPT ![loc[p].run_id] =
                      update_run_status(@, loc[p].new_status, NULL, NULL,
                                        loc[p].kpis_data, now)]
        /\ Goto(p, "release")
     \/ /\ Goto(p, "log_error")
        /\ UNCHANGED runs
  /\ UNCHANGED <<lock, events, restores, job, nextId, ops, loc, race>>
  /\ Tock

\* db.update_run_status(run_id, status=new_status, kpis=kpis_data); an
\* exception is swallowed
AdvanceKpiUpdate(p) ==
  /\ pc[p] = "kpi_update"
  /\ \/ runs' = [runs EXCEPT ![loc[p].run_id] =
                   update_run_status(@, loc[p].new_status, NULL, NULL,
                                     loc[p].kpis_data, now)]
     \/ UNCHANGED runs
  /\ Goto(p, "release")
  /\ UNCHANGED <<lock, events, restores, job, nextId, ops, loc, race>>
  /\ Tock

\* AdvanceRelease with the exception left to the outer handler
AdvanceRelease_error_aborts(p) ==
  /\ pc[p] = "release"
  /\ \/ LET r == release_lock(lock, loc[p].run_id) IN
          /\ lock' = r.lock
          /\ race' = IF r.released THEN NoRace ELSE race
          /\ loc' = [loc EXCEPT ![p].released = IF r.released THEN "yes" ELSE "no"]
          /\ Goto(p, "lock_event")
     \/ /\ loc' = [loc EXCEPT ![p].released = "raised"]
        /\ Goto(p, "log_error")
        /\ UNCHANGED <<lock, race>>
  /\ UNCHANGED <<runs, events, restores, job, nextId, ops>>
  /\ Tock

\* locking.release_lock(run_id); an exception skips the LOG event and shows
\* a warning
AdvanceRelease(p) ==
  /\ pc[p] = "release"
  /\ \/ LET r == release_lock(lock, loc[p].run_id) IN
          /\ lock' = r.lock
          /\ race' = IF r.released THEN NoRace ELSE race
          /\ loc' = [loc EXCEPT ![p].released = IF r.released THEN "yes" ELSE "no"]
          /\ Goto(p, "lock_event")
     \/ /\ loc' = [loc EXCEPT ![p] =
                     Outcome([@ EXCEPT !.released = "raised", !.warned = TRUE],
                             "transitioned")]
        /\ Goto(p, "done")
        /\ UNCHANGED <<lock, race>>
  /\ UNCHANGED <<runs, events, restores, job, nextId, ops>>
  /\ Tock

\* db.append_event(run_id, "LOG", "Pipeline lock released. ...")
AdvanceLockEvent(p) ==
  /\ pc[p] = "lock_event"
  /\ \E ok \in BOOLEAN :
       /\ events' = IF ok THEN append_event(events, loc[p].run_id, "LOG",
                                            "lock_released", now)
                          ELSE events
       /\ loc' = [loc EXCEPT ![p] =
                    Outcome([@ EXCEPT !.warned = @ \/ ~ok], "transitioned")]
  /\ Goto(p, "done")
  /\ UNCHANGED <<lock, runs, restores, job, nextId, ops, race>>
  /\ Tock

\* except Exception: st.error; db.append_event(run_id, "ERROR", "Poll
\* error: ..."), best effort
AdvanceLogError(p) ==
  /\ pc[p] = "log_error"
  /\ \/ events' = append_event(events, loc[p].run_id, "ERROR", "poll_error", now)
     \/ UNCHANGED events
  /\ loc' = [loc EXCEPT ![p] = Outcome(@, "poll_error")]
  /\ Goto(p, "done")
  /\ UNCHANGED <<lock, runs, restores, job, nextId, ops, race>>
  /\ Tock

Advance(p) ==
  \/ AdvanceClick(p)
  \/ AdvancePoll(p)
  \/ AdvanceUpdate(p)
  \/ AdvanceEvent(p)
  \/ AdvanceKpi(p)
  \/ AdvanceKpiUpdate(p)
  \/ AdvanceRelease(p)
  \/ AdvanceLockEvent(p)
  \/ AdvanceLogError(p)

\* ---------------------------------------- Archive page: restore_disabled
\* ... with any finished run accepted
restore_disabled_unless_finished(status) == status \notin TerminalStatuses

\* restore_disabled = selected_run["status"] != "SUCCEEDED" or not user_name
\* (a user name is always given)
restore_disabled(status) == status # "SUCCEEDED"

\* RestoreClick refusing also while the run lock is held
RestoreClick_lock_gated(p) ==
  /\ Ready(p)
  /\ ops' = ops + 1
  /\ \/ /\ loc' = [loc EXCEPT ![p] = Outcome([NoLoc EXCEPT !.op = "restore"], "no_run")]
        /\ Goto(p, "done")
        /\ UNCHANGED nextId
     \/ \E r \in DOMAIN runs :
          LET seen == [NoLoc EXCEPT !.op = "restore", !.run_id = r,
                                    !.status = runs[r].status] IN
          IF restore_disabled(runs[r].status) \/ is_locked(lock)
            THEN /\ loc' = [loc EXCEPT ![p] = Outcome(seen, "refused")]
                 /\ Goto(p, "done")
                 /\ UNCHANGED nextId
            ELSE /\ loc' = [loc EXCEPT ![p] = [seen EXCEPT !.target = nextId + 1]]
                 /\ nextId' = nextId + 1
                 /\ Goto(p, "restore_trigger")
  /\ UNCHANGED <<store, job, race>>
  /\ Tock

\* ------------------------------------------------ Archive page: Restore
\* The click reruns the script: runs = list_runs(100), the selected run is
\* one of its rows; the button is disabled unless that row is SUCCEEDED;
\* restore_run_id = uuid.uuid4()
RestoreClick(p) ==
  /\ Ready(p)
  /\ ops' = ops + 1
  /\ \/ \* the query raises, or there is no run: st.stop()
        /\ loc' = [loc EXCEPT ![p] = Outcome([NoLoc EXCEPT !.op = "restore"], "no_run")]
        /\ Goto(p, "done")
        /\ UNCHANGED nextId
     \/ \E r \in DOMAIN runs :
          LET seen == [NoLoc EXCEPT !.op = "restore", !.run_id = r,
                                    !.status = runs[r].status] IN
          IF restore_disabled(runs[r].status)
            THEN /\ loc' = [loc EXCEPT ![p] = Outcome(seen, "refused")]
                 /\ Goto(p, "done")
                 /\ UNCHANGED nextId
            ELSE /\ loc' = [loc EXCEPT ![p] = [seen EXCEPT !.target = nextId + 1]]
                 /\ nextId' = nextId + 1
                 /\ Goto(p, "restore_trigger")
  /\ UNCHANGED <<store, job, race>>
  /\ Tock

\* fabric_pipelines.trigger_pipeline("__restore__<run_id>", restore_run_id, ...)
RestoreTrigger(p) ==
  /\ pc[p] = "restore_trigger"
  /\ \/ /\ job' = job @@ (loc[p].target :> "NotStarted")
        /\ Goto(p, "restore_insert")
     \/ /\ Goto(p, "fallback_insert")
        /\ UNCHANGED job
  /\ UNCHANGED <<store, nextId, ops, loc, race>>
  /\ Tock

\* restore_id = db.insert_restore(user_name, selected_run_id, restore_run_id)
RestoreInsert(p) ==
  /\ pc[p] = "restore_insert"
  /\ \/ /\ restores' = insert_restore(restores, User(p), loc[p].run_id,
                                      loc[p].target, now)
        /\ Goto(p, "restore_event")
     \/ /\ Goto(p, "fallback_insert")
        /\ UNCHANGED restores
  /\ UNCHANGED <<lock, runs, events, job, nextId, ops, loc, race>>
  /\ Tock

\* db.append_event(selected_run_id, "LOG", "Restore triggered by ...")
RestoreEvent(p) ==
  /\ pc[p] = "restore_event"
  /\ \/ /\ events' = append_event(events, loc[p].run_id, "LOG",
                                  "restore_triggered", now)
        /\ loc' = [loc EXCEPT ![p] = Outcome(@, "restored")]
        /\ Goto(p, "done")
     \/ /\ Goto(p, "fallback_insert")
        /\ UNCHANGED <<events, loc>>
  /\ UNCHANGED <<lock, runs, restores, job, nextId, ops, race>>
  /\ Tock

\* except Exception: st.error; restore_id = db.insert_restore(user_name,
\* selected_run_id); an exception here is swallowed with the event
RestoreFallbackInsert(p) ==
  /\ pc[p] = "fallback_insert"
  /\ \/ /\ restores' = insert_restore(restores, User(p), loc[p].run_id, NULL, now)
        /\ Goto(p, "fallback_event")
        /\ UNCHANGED loc
     \/ /\ loc' = [loc EXCEPT ![p] = Outcome(@, "restore_unrecorded")]
        /\ Goto(p, "done")
        /\ UNCHANGED restores
  /\ UNCHANGED <<lock, runs, events, job, nextId, ops, race>>
  /\ Tock

\* db.append_event(selected_run_id, "WARNING", "Restore requested ... failed")
RestoreFallbackEvent(p) ==
  /\ pc[p] = "fallback_event"
  /\ \/ /\ events' = append_event(events, loc[p].run_id, "WARNING",
                                  "restore_failed", now)
        /\ loc' = [loc EXCEPT ![p] = Outcome(@, "restore_failed")]
     \/ /\ loc' = [loc EXCEPT ![p] = Outcome(@, "restore_unrecorded")]
        /\ UNCHANGED events
  /\ Goto(p, "done")
  /\ UNCHANGED <<lock, runs, restores, job, nextId, ops, race>>
  /\ Tock

Restore(p) ==
  \/ RestoreClick(p)
  \/ RestoreTrigger(p)
  \/ RestoreInsert(p)
  \/ RestoreEvent(p)
  \/ RestoreFallbackInsert(p)
  \/ RestoreFallbackEvent(p)

\* ---------------------------------------------------------- behaviours
\* Calls of any sessions, their steps interleaved
Next == \E p \in Calls : Admit(p) \/ Advance(p) \/ Restore(p)

Spec == Init /\ [][Next]_vars

\* One call at a time: a call takes steps only while no other is in progress
Alone(p) == \A q \in Calls \ {p} : pc[q] \in {"idle", "done"}

SeqNext == \E p \in Calls : Alone(p) /\ (Admit(p) \/ Advance(p) \/ Restore(p))

SeqSpec == Init /\ [][SeqNext]_vars

\* ------------------------------------------------- operator recovery
\* locking.force_release_lock(), called by an operator outside the pages
\* (no page calls it); it raises when the store is unreachable
ForceRelease(p) ==
  /\ Ready(p)
  /\ ops' = ops + 1
  /\ \/ LET r == force_release_lock(lock) IN
          /\ lock' = r.lock
          /\ race' = NoRace
          /\ loc' = [loc EXCEPT ![p] =
                       [NoLoc EXCEPT !.op = "force_release",
                                     !.released = IF r.released THEN "yes" ELSE "no",
                                     !.result = "ok"]]
     \/ /\ loc' = [loc EXCEPT ![p] =
                     [NoLoc EXCEPT !.op = "force_release", !.released = "raised",
                                   !.result = "store_error"]]
        /\ UNCHANGED <<lock, race>>
  /\ Goto(p, "done")
  /\ UNCHANGED <<runs, events, restores, job, nextId>>
  /\ Tock

\* The page handlers and the operator, one call at a time
AdminNext ==
  \/ SeqNext
  \/ \E p \in Calls : Alone(p) /\ ForceRelease(p)

AdminSpec == Init /\ [][AdminNext]_vars

\* The page handlers of concurrent sessions and the operator
RecoveryNext ==
  \/ Next
  \/ \E p \in Calls : ForceRelease(p)

RecoverySpec == Init /\ [][RecoveryNext]_vars

\* ------------------------------------------- the lock functions alone
\* acquire_lock and release_lock applied to every lock row and argument:
\* the driver is call 1, whose locals hold the last call and what it
\* returned
LockIds == 1..(MaxOps + 1)

LockRows ==
  {FreeLock} \cup [run_id : LockIds, locked_at : LockIds, locked_by : LockIds]

LockInit ==
  /\ lock \in LockRows
  /\ runs = <<>>
  /\ events = <<>>
  /\ restores = <<>>
  /\ job = <<>>
  /\ now = 1
  /\ nextId = 0
  /\ ops = 0
  /\ pc = [p \in Calls |-> "idle"]
  /\ loc = [p \in Calls |-> NoLoc]
  /\ race = NoRace

LockAcquire ==
  \E run_id \in LockIds, at \in LockIds, by \in LockIds :
    LET r == acquire_lock(lock, run_id, at, by) IN
    /\ lock' = r.lock
    /\ loc' = [loc EXCEPT ![1] =
                 [NoLoc EXCEPT !.op = "acquire_lock", !.run_id = run_id,
                               !.acquired = IF r.acquired THEN "yes" ELSE "no"]]
    /\ UNCHANGED <<runs, events, restores, job, now, nextId, ops, pc, race>>

LockRelease ==
  \E run_id \in LockIds :
    LET r == release_lock(lock, run_id) IN
    /\ lock' = r.lock
    /\ loc' = [loc EXCEPT ![1] =
                 [NoLoc EXCEPT !.op = "release_lock", !.run_id = run_id,
                               !.released = IF r.released THEN "yes" ELSE "no"]]
    /\ UNCHANGED <<runs, events, restores, job, now, nextId, ops, pc, race>>

\* Strings map_fabric_status may be given: the job statuses, what
\* poll_job_status and poll_until_done make up, and strings of neither kind
StatusStrings ==
  FabricJobStatuses \cup
    {"Unknown", "PollError", "Timeout", "", "completed", "Succeeded", "SUBMITTED"}

MapStatus ==
  \E s \in StatusStrings :
    /\ loc' = [loc EXCEPT ![1] =
                 [NoLoc EXCEPT !.op = "map_fabric_status", !.fabric_status = s,
                               !.new_status = map_fabric_status(s)]]
    /\ UNCHANGED <<store, job, now, nextId, ops, pc, race>>

\* The lock status block of a page: locked, lock_info = is_locked(); when
\* is_locked raises (the store is unreachable) the page binds `locked` itself
\* Import page: except Exception: locked = True
ImportLockStatus ==
  /\ \/ loc' = [loc EXCEPT ![1] =
                  [NoLoc EXCEPT !.op = "import_page", !.result = "ok",
                                !.locked = IF is_locked(lock) THEN "yes" ELSE "no"]]
     \/ loc' = [loc EXCEPT ![1] =
                  [NoLoc EXCEPT !.op = "import_page", !.result = "store_error",
                                !.locked = "yes"]]
  /\ UNCHANGED <<store, job, now, nextId, ops, pc, race>>

\* Monitor page: except Exception: locked = False
MonitorLockStatus ==
  /\ \/ loc' = [loc EXCEPT ![1] =
                  [NoLoc EXCEPT !.op = "monitor_page", !.result = "ok",
                                !.locked = IF is_locked(lock) THEN "yes" ELSE "no"]]
     \/ loc' = [loc EXCEPT ![1] =
                  [NoLoc EXCEPT !.op = "monitor_page", !.result = "store_error",
                                !.locked = "no"]]
  /\ UNCHANGED <<store, job, now, nextId, ops, pc, race>>

\* Home page: the except shows the error; `locked` is not bound or used
HomeLockStatus ==
  /\ \/ loc' = [loc EXCEPT ![1] =
                  [NoLoc EXCEPT !.op = "home_page", !.result = "ok",
                                !.locked = IF is_locked(lock) THEN "yes" ELSE "no"]]
     \/ loc' = [loc EXCEPT ![1] =
                  [NoLoc EXCEPT !.op = "home_page", !.result = "store_error"]]
  /\ UNCHANGED <<store, job, now, nextId, ops, pc, race>>

LockNext ==
  \/ LockAcquire
  \/ LockRelease
  \/ MapStatus
  \/ ImportLockStatus
  \/ MonitorLockStatus
  \/ HomeLockStatus

LockSpec == LockInit /\ [][LockNext]_vars

\* --------------------------------------- update_run_status on its own
\* pipeline_runs holds one row per id, as inserted by insert_pipeline_run
DbInit ==
  /\ lock = FreeLock
  /\ runs = [r \in 1..MaxOps |-> insert_pipeline_run(r, r, "url", "SUBMITTED", r)]
  /\ events = <<>>
  /\ restores = <<>>
  /\ job = <<>>
  /\ now = MaxOps + 1
  /\ nextId = MaxOps
  /\ ops = 0
  /\ pc = [p \in Calls |-> "idle"]
  /\ loc = [p \in Calls |-> NoLoc]
  /\ race = NoRace

\* update_run_status(run_id, status, error_message, fabric_job_id, kpis):
\* UPDATE pipeline_runs SET ... WHERE run_id = %s, which changes no row when
\* no row has that id; the arguments are kept in loc[1]
DbUpdateRunStatus ==
  \E run_id \in 1..(MaxOps + 1),
     status \in ActiveStatuses \cup TerminalStatuses,
     error_message \in {NULL, 1},
     fabric_job_id \in {NULL, 1},
     kpis \in {NULL, 1} :
    /\ ops < MaxOps
    /\ ops' = ops + 1
    /\ runs' = IF run_id \in DOMAIN runs
                 THEN [runs EXCEPT ![run_id] =
                         update_run_status(@, status, error_message,
                                           fabric_job_id, kpis, now)]
                 ELSE runs
    /\ now' = now + 1
    /\ loc' = [loc EXCEPT ![1] =
                 [NoLoc EXCEPT !.op = "update_run_status", !.run_id = run_id,
                               !.new_status = status,
                               !.error_message = error_message,
                               !.fabric_job_id = fabric_job_id,
                               !.kpis_data = kpis]]
    /\ UNCHANGED <<lock, events, restores, job, nextId, pc, race>>

DbNext == DbUpdateRunStatus

DbSpec == DbInit /\ [][DbNext]_vars

\* ------------------------------------------- poll_until_done on its own
\* Greatest max_polls tried
MaxPolls == 3

PollInit ==
  /\ lock = FreeLock
  /\ runs = <<>>
  /\ events = <<>>
  /\ restores = <<>>
  /\ job = <<>>
  /\ now = 1
  /\ nextId = 0
  /\ ops = 0
  /\ pc = [p \in Calls |-> "idle"]
  /\ loc = [p \in Calls |-> NoLoc]
  /\ race = NoRace

\* poll_until_done(location_url, interval_seconds, max_polls) is called for a
\* job in any status; max_polls is kept in loc[1].target, and ops counts the
\* calls of poll_job_status
PollUntilDoneCall ==
  /\ pc[1] = "idle"
  /\ \E max_polls \in 0..MaxPolls, s \in FabricJobStatuses :
       /\ job' = (1 :> s)
       /\ loc' = [loc EXCEPT ![1] =
                    [NoLoc EXCEPT !.op = "poll_until_done", !.run_id = 1,
                                  !.target = max_polls]]
  /\ Goto(1, "loop")
  /\ UNCHANGED <<store, now, nextId, ops, race>>

\* ... with one iteration more than max_polls
PollUntilDonePoll_one_more ==
  /\ pc[1] = "loop"
  /\ ops <= loc[1].target
  /\ ops' = ops + 1
  /\ \/ \E s \in JobReach(job[1]) : \E res \in poll_job_status(s, 1) :
          /\ job' = [job EXCEPT ![1] = s]
          /\ IF res[1] \in {"Completed", "Failed", "Cancelled", "Deduped"}
               THEN /\ loc' = [loc EXCEPT ![1].fabric_status = res[1],
                                          ![1].result = "returned"]
                    /\ Goto(1, "done")
               ELSE /\ loc' = [loc EXCEPT ![1].fabric_status = res[1]]
                    /\ UNCHANGED pc
     \/ /\ loc' = [loc EXCEPT ![1].fabric_status = "none", ![1].result = "raised"]
        /\ Goto(1, "done")
        /\ UNCHANGED job
  /\ UNCHANGED <<store, now, nextId, race>>

\* One iteration of `for _ in range(max_polls)`: result = poll_job_status(...);
\* return result when its status is one of the four final ones, else
\* time.sleep(interval_seconds); an exception of poll_job_status leaves the
\* function
PollUntilDonePoll ==
  /\ pc[1] = "loop"
  /\ ops < loc[1].target
  /\ ops' = ops + 1
  /\ \/ \E s \in JobReach(job[1]) : \E res \in poll_job_status(s, 1) :
          /\ job' = [job EXCEPT ![1] = s]
          /\ IF res[1] \in {"Completed", "Failed", "Cancelled", "Deduped"}
               THEN /\ loc' = [loc EXCEPT ![1].fabric_status = res[1],
                                          ![1].result = "returned"]
                    /\ Goto(1, "done")
               ELSE /\ loc' = [loc EXCEPT ![1].fabric_status = res[1]]
                    /\ UNCHANGED pc
     \/ /\ loc' = [loc EXCEPT ![1].fabric_status = "none", ![1].result = "raised"]
        /\ Goto(1, "done")
        /\ UNCHANGED job
  /\ UNCHANGED <<store, now, nextId, race>>

\* The range is exhausted: return {"status": "Timeout", "raw": {}}
PollUntilDoneTimeout ==
  /\ pc[1] = "loop"
  /\ ops >= loc[1].target
  /\ loc' = [loc EXCEPT ![1].fabric_status = "Timeout", ![1].result = "returned"]
  /\ Goto(1, "done")
  /\ UNCHANGED <<store, job, now, nextId, ops, race>>

PollNext ==
  \/ PollUntilDoneCall
  \/ PollUntilDonePoll
  \/ PollUntilDoneTimeout

\* Each blocking step of the loop ends (the request has timeout=30, the
\* sleep is finite)
PollSpec == PollInit /\ [][PollNext]_vars /\ WF_vars(PollNext)

\* ------------------------------------- polling until the job has ended
\* A step of call p in which no store call and no job-client call fails: no
\* exception handler is entered, the poll yields the status the job has,
\* the run query fails only when no run is recorded, the KPI snapshot is
\* stored
Succeeds(p) ==
  /\ pc'[p] \notin {"log_error", "release_on_fail"}
  /\ ~loc'[p].warned
  /\ loc'[p].acquired # "raised"
  /\ loc'[p].released # "raised"
  /\ pc[p] = "poll" => loc'[p].fabric_status = job'[loc[p].run_id]
  /\ loc'[p].result = "no_run" => runs = <<>>
  /\ pc[p] = "kpi_update" => runs' # runs

\* The session whose script run has ended is ready for its next click (the
\* Monitor page reruns every 30 s while the run is active and offers the
\* button anew)
Again(p) ==
  /\ p = ops
  /\ pc[p] = "done"
  /\ ops' = ops - 1
  /\ pc' = [pc EXCEPT ![p] = "idle"]
  /\ loc' = [loc EXCEPT ![p] = NoLoc]
  /\ UNCHANGED <<store, job, now, nextId, race>>

\* The Fabric job instance of run r moves on by itself
JobStep(r) ==
  /\ r \in DOMAIN job
  /\ \E s \in JobReach(job[r]) \ {job[r]} : job' = [job EXCEPT ![r] = s]
  /\ UNCHANGED <<store, now, nextId, ops, pc, loc, race>>

\* A step of a Run Pipeline or Refresh Status call, one call at a time
LiveStep(p) ==
  /\ Alone(p)
  /\ \/ (pc[p] = "idle" => nextId < MaxOps) /\ Admit(p)
     \/ Advance(p)
  /\ Succeeds(p)

LiveNext ==
  \/ \E p \in Calls : LiveStep(p)
  \/ \E p \in Calls : Again(p)
  \/ \E r \in DOMAIN job : JobStep(r)

\* A script run that has started runs to its end, the session then becomes
\* ready again, and Refresh Status keeps being clicked
LiveSpec ==
  /\ Init
  /\ [][LiveNext]_vars
  /\ WF_vars(\E p \in Calls : pc[p] \notin {"idle", "done"} /\ LiveStep(p))
  /\ WF_vars(\E p \in Calls : Again(p))
  /\ SF_vars(\E p \in Calls : Alone(p) /\ AdvanceClick(p) /\ Succeeds(p))

\* ---------------------------------------------- with an archived run
\* The store after one run was admitted, polled once with the job Completed
\* (no KPI snapshot found) and its lock released, every step succeeding
InitArchived ==
  /\ lock = release_lock(acquire_lock(FreeLock, 1, 1, 1).lock, 1).lock
  /\ runs = (1 :> update_run_status(
                    insert_pipeline_run(1, 1, "url", "SUBMITTED", 2),
                    "SUCCEEDED", NULL, 1, NULL, 4))
  /\ events = append_event(
                append_event(
                  append_event(<<>>, 1, "STATUS_CHANGE", "submitted", 3),
                  1, "STATUS_CHANGE", "status_changed", 5),
                1, "LOG", "lock_released", 6)
  /\ job = (1 :> "Completed")
  /\ now = 7
  /\ nextId = 1
  /\ race = NoRace
  /\ restores = <<>>
  /\ ops = 0
  /\ pc = [p \in Calls |-> "idle"]
  /\ loc = [p \in Calls |-> NoLoc]

\* The page handlers of concurrent sessions, started with an archived run
ArchiveSpec == InitArchived /\ [][Next]_vars

\* ================================================================ properties
\* In SeqSpec: call p has just returned and no later call has started, so the
\* store is as p left it
Latest(p) == p = ops /\ pc[p] = "done"

\* The external poll of Advance call p failed: requests raised or the body
\* was not JSON (the outer except), or the HTTP status was not 200 / 202
PollFailed(p) ==
  \/ loc[p].fabric_status = "PollError"
  \/ pc[p] = "log_error"
  \/ loc[p].result = "poll_error"

\* C1: of the Admit calls that race for the free lock exactly one gets true
\* from acquire_lock; a call that got false has stopped, has triggered no job
\* and has inserted no run row
C1_ExactlyOneAdmitWins ==
  /\ race.wins <= 1
  /\ race.lost => race.wins = 1
  /\ \A p \in Calls :
       loc[p].op = "admit" /\ loc[p].acquired = "no" =>
         /\ pc[p] = "done"
         /\ loc[p].result = "contention"
         /\ loc[p].run_id \notin DOMAIN job
         /\ loc[p].run_id \notin DOMAIN runs

\* Two Admit calls started on the free lock; the later one took the lock
\* and is at its trigger, the earlier one then got false
C1_Witness ==
  \E p, q \in Calls :
    /\ q < p
    /\ loc[p].op = "admit" /\ loc[p].acquired = "yes" /\ pc[p] = "trigger"
    /\ loc[q].op = "admit" /\ loc[q].acquired = "no" /\ pc[q] = "done"
    /\ lock.run_id = loc[p].run_id
    /\ runs = <<>>

\* C2: in every reachable state at most one row of pipeline_runs has an
\* active status (SUBMITTED, QUEUED, RUNNING)
C2_AtMostOneActiveRun ==
  Cardinality({r \in DOMAIN runs : runs[r].status \in ActiveStatuses}) <= 1

\* C3: acquire_lock returns true exactly when the row's run_id was NULL just
\* before, and then the holder is run_id; on a held lock it returns false and
\* leaves run_id, locked_at and locked_by as they were
C3_AcquireContract ==
  [][loc'[1].op = "acquire_lock" =>
       /\ (loc'[1].acquired = "yes") <=> (lock.run_id = NULL)
       /\ loc'[1].acquired \in {"yes", "no"}
       /\ loc'[1].acquired = "yes" => lock'.run_id = loc'[1].run_id
       /\ lock.run_id # NULL => lock' = lock]_vars

\* acquire_lock returned false on a lock held by another run id
C3_Witness ==
  /\ loc[1].op = "acquire_lock"
  /\ loc[1].acquired = "no"
  /\ lock.run_id # NULL
  /\ lock.run_id # loc[1].run_id

\* C4: release_lock clears the lock and returns true only when the holder is
\* run_id; otherwise it returns false and leaves the row as it was, so a
\* second release_lock with the same id right after a successful one returns
\* false and changes nothing
C4_ReleaseContract ==
  [][loc'[1].op = "release_lock" =>
       /\ (loc'[1].released = "yes") <=> (lock.run_id = loc'[1].run_id)
       /\ loc'[1].released \in {"yes", "no"}
       /\ loc'[1].released = "yes" => lock' = FreeLock
       /\ lock.run_id # loc'[1].run_id => lock' = lock
       /\ (/\ loc[1].op = "release_lock"
           /\ loc[1].released = "yes"
           /\ loc[1].run_id = loc'[1].run_id)
            => loc'[1].released = "no" /\ lock' = lock]_vars

\* release_lock returned false on a lock held by another run id
C4_Witness ==
  /\ loc[1].op = "release_lock"
  /\ loc[1].released = "no"
  /\ lock.run_id # NULL
  /\ lock.run_id # loc[1].run_id

\* C5: an Admit on the free lock whose submission and store writes succeed
\* ends with the lock held by its new run id, one new run row with status
\* SUBMITTED for that id and exactly one event for it; an Admit on the held
\* lock ends in contention and creates no run row and no event
C5_AdmitScenario ==
  /\ [](\A p \in Calls :
          Latest(p) /\ loc[p].op = "admit" =>
            /\ (loc[p].result = "ok" /\ ~loc[p].warned) =>
                 /\ lock.run_id = loc[p].run_id
                 /\ loc[p].run_id \in DOMAIN runs
                 /\ runs[loc[p].run_id].status = "SUBMITTED"
                 /\ Len(EventsOf(events, loc[p].run_id)) = 1
                 /\ EventsOf(events, loc[p].run_id)[1].event_type = "STATUS_CHANGE"
            /\ loc[p].result = "contention" =>
                 /\ lock.run_id \notin {NULL, loc[p].run_id}
                 /\ loc[p].run_id \notin DOMAIN runs
                 /\ EventsOf(events, loc[p].run_id) = <<>>)
  /\ [][\A p \in Calls :
          loc[p].op = "admit" /\ pc'[p] # pc[p] =>
            /\ DOMAIN runs' \subseteq DOMAIN runs \cup {loc[p].run_id}
            /\ \A r \in DOMAIN runs : runs'[r] = runs[r]
            /\ loc'[p].result = "contention" => store' = store /\ job' = job]_vars

\* The second Admit ended in contention while the first one's run holds the
\* lock with its SUBMITTED row and its one event
C5_Witness ==
  \E p, q \in Calls :
    /\ Latest(p) /\ loc[p].op = "admit" /\ loc[p].result = "contention"
    /\ loc[q].op = "admit" /\ loc[q].result = "ok" /\ ~loc[q].warned
    /\ lock.run_id = loc[q].run_id
    /\ runs[loc[q].run_id].status = "SUBMITTED"
    /\ Len(EventsOf(events, loc[q].run_id)) = 1

\* C6 as stated: an Admit whose trigger_pipeline failed ends with no run row
\* and no event for its run id, and with the lock free
C6_TriggerFailureFreesLock ==
  \A p \in Calls :
    Latest(p) /\ loc[p].op = "admit" /\ loc[p].result = "trigger_error" =>
      /\ loc[p].run_id \notin DOMAIN runs
      /\ EventsOf(events, loc[p].run_id) = <<>>
      /\ loc[p].run_id \notin DOMAIN job
      /\ lock = FreeLock

\* C6: an Admit whose trigger_pipeline failed ends with no run row and no
\* event for its run id; the lock is free if its release_lock call returned,
\* and still held by its run id if that call raised
C6_TriggerFailureReleases ==
  \A p \in Calls :
    Latest(p) /\ loc[p].op = "admit" /\ loc[p].result = "trigger_error" =>
      /\ loc[p].run_id \notin DOMAIN runs
      /\ EventsOf(events, loc[p].run_id) = <<>>
      /\ loc[p].run_id \notin DOMAIN job
      /\ loc[p].released \in {"yes", "raised"}
      /\ loc[p].released = "yes" => lock = FreeLock
      /\ loc[p].released = "raised" => lock.run_id = loc[p].run_id

\* An Admit took the free lock, its trigger failed, and it released the lock
C6_Witness ==
  \E p \in Calls :
    /\ Latest(p) /\ loc[p].op = "admit" /\ loc[p].result = "trigger_error"
    /\ loc[p].acquired = "yes" /\ loc[p].released = "yes"
    /\ lock = FreeLock

\* C7: a stored status of SUCCEEDED or FAILED never changes again
C7_TerminalStatusIsFinal ==
  [][\A r \in DOMAIN runs :
       runs[r].status \in TerminalStatuses => runs'[r].status = runs[r].status]_vars

\* C8: no step of an Advance call whose poll failed changes the run's row or
\* the lock, and the call ends with an ERROR event appended for the run
C8_PollFailureChangesNothing ==
  [][\A p \in Calls :
       (/\ loc[p].op = "advance"
        /\ pc'[p] # pc[p]
        /\ \/ PollFailed(p)
           \/ loc'[p].fabric_status = "PollError"
           \/ pc'[p] = "log_error") =>
         /\ runs' = runs
         /\ lock' = lock
         /\ pc'[p] = "done" =>
              /\ Len(events') = Len(events) + 1
              /\ events'[Len(events')].run_id = loc[p].run_id
              /\ events'[Len(events')].event_type = "ERROR"]_vars

\* C9: finished_at, once written, keeps its value
C9_FinishedAtWrittenOnce ==
  [][\A r \in DOMAIN runs :
       runs[r].finished_at # NULL =>
         runs'[r].finished_at = runs[r].finished_at]_vars

\* C10: started_at, once written, keeps its value
C10_StartedAtWrittenOnce ==
  [][\A r \in DOMAIN runs :
       runs[r].started_at # NULL =>
         runs'[r].started_at = runs[r].started_at]_vars

\* C11: an Advance call (one at a time) whose poll maps to the run's stored
\* status ends there as "unchanged": it updates no run row, appends no event
\* and leaves the lock, so a second Advance with the same external status
\* leaves the store as the first one left it
C11_UnchangedWritesNothing ==
  /\ [][\A p \in Calls :
          loc'[p].op = "advance" /\ pc'[p] # pc[p] /\ pc[p] \in {"idle", "poll"} =>
            /\ store' = store
            /\ (/\ pc[p] = "poll"
                /\ loc'[p].new_status = runs[loc[p].run_id].status)
                 => pc'[p] = "done" /\ loc'[p].result = "unchanged"
            /\ loc'[p].result = "unchanged" =>
                 loc'[p].new_status = runs[loc[p].run_id].status]_vars
  /\ [](\A p \in Calls :
          Latest(p) /\ loc[p].op = "advance" /\ loc[p].result = "unchanged" =>
            /\ runs[loc[p].run_id].status = loc[p].new_status
            /\ loc[p].released = "none")

\* A first Advance moved the run to RUNNING on InProgress; the second one
\* polled InProgress again and ended unchanged, the row still as the first
\* one wrote it
C11_Witness ==
  \E p, q \in Calls :
    /\ q < p /\ Latest(p)
    /\ loc[q].op = "advance" /\ loc[q].result = "transitioned" /\ ~loc[q].warned
    /\ loc[p].op = "advance" /\ loc[p].result = "unchanged"
    /\ loc[p].run_id = loc[q].run_id
    /\ loc[p].fabric_status = "InProgress" /\ loc[q].fabric_status = "InProgress"
    /\ runs[loc[p].run_id].status = "RUNNING"
    /\ Len(EventsOf(events, loc[p].run_id)) = 2

\* Advance calls p and q, the only ones on their run, both polled the same
\* terminal job status and both ran to the end
BothTerminal(p, q) ==
  /\ p # q
  /\ loc[p].op = "advance" /\ loc[q].op = "advance"
  /\ loc[p].run_id = loc[q].run_id
  /\ pc[p] = "done" /\ pc[q] = "done"
  /\ loc[p].result = "transitioned" /\ loc[q].result = "transitioned"
  /\ loc[p].fabric_status = loc[q].fabric_status
  /\ loc[p].new_status \in TerminalStatuses
  /\ \A o \in Calls \ {p, q} :
       loc[o].op = "advance" => loc[o].run_id # loc[p].run_id

\* C12: two concurrent Advance calls on one run that both poll the same
\* terminal status: at most one of their release_lock calls returns true and
\* neither clears a lock held by another run; when their store writes
\* succeed the run ends with that terminal status and its lock released
C12_ConcurrentTerminalAdvance ==
  /\ [](\A p, q \in Calls :
          BothTerminal(p, q) =>
            /\ ~(loc[p].released = "yes" /\ loc[q].released = "yes")
            /\ (~loc[p].warned /\ ~loc[q].warned) =>
                 /\ runs[loc[p].run_id].status = loc[p].new_status
                 /\ loc[p].new_status = loc[q].new_status
                 /\ lock.run_id # loc[p].run_id
                 /\ lock # FreeLock =>
                      \E o \in Calls : /\ loc[o].op = "admit"
                                       /\ loc[o].acquired = "yes"
                                       /\ loc[o].run_id = lock.run_id)
  /\ [][\A p \in Calls :
          (/\ loc[p].op = "advance"
           /\ pc[p] = "release" /\ pc'[p] # pc[p]
           /\ lock.run_id # loc[p].run_id) => lock' = lock]_vars

\* Both calls polled Completed and wrote SUCCEEDED; one release_lock
\* returned true, the other false, and the lock is free
C12_Witness ==
  \E p, q \in Calls :
    /\ BothTerminal(p, q)
    /\ ~loc[p].warned /\ ~loc[q].warned
    /\ loc[p].fabric_status = "Completed"
    /\ loc[p].released = "yes" /\ loc[q].released = "no"
    /\ runs[loc[p].run_id].status = "SUCCEEDED"
    /\ lock = FreeLock

\* C13: an Advance (one at a time) on an active run whose poll returns
\* Completed and whose store writes succeed leaves status SUCCEEDED with
\* finished_at set and the run's lock released, has attempted the KPI fetch,
\* and has appended exactly two events: STATUS_CHANGE, then the LOG event of
\* the release
C13_CompletedScenario ==
  /\ [](\A p \in Calls :
          (/\ Latest(p) /\ loc[p].op = "advance"
           /\ loc[p].fabric_status = "Completed"
           /\ loc[p].result = "transitioned" /\ ~loc[p].warned) =>
            LET es == EventsOf(events, loc[p].run_id) IN
            /\ loc[p].status \in ActiveStatuses
            /\ runs[loc[p].run_id].status = "SUCCEEDED"
            /\ runs[loc[p].run_id].finished_at # NULL
            /\ loc[p].released \in {"yes", "no"}
            /\ lock.run_id # loc[p].run_id
            /\ loc[p].released = "yes" => lock = FreeLock
            /\ Len(es) >= 2
            /\ es[Len(es) - 1].event_type = "STATUS_CHANGE"
            /\ es[Len(es) - 1].message = "status_changed"
            /\ es[Len(es)].event_type = "LOG"
            /\ es[Len(es)].message = "lock_released"
            /\ es[Len(es) - 1].event_time < es[Len(es)].event_time)
  /\ [][\A p \in Calls :
          loc'[p].op = "advance" /\ pc'[p] # pc[p] =>
            /\ pc[p] \notin {"status_event", "lock_event", "log_error"} =>
                 events' = events
            /\ Len(events') <= Len(events) + 1
            /\ (pc'[p] = "release" /\ loc[p].new_status = "SUCCEEDED") =>
                 pc[p] \in {"kpi", "kpi_update"}
            /\ pc'[p] = "kpi" =>
                 /\ pc[p] \in {"update", "status_event"}
                 /\ loc[p].new_status = "SUCCEEDED"]_vars

\* The run of the initial store was polled Completed: SUCCEEDED, KPIs
\* stored, the lock released by this call, three events in all
C13_Witness ==
  \E p \in Calls :
    /\ Latest(p) /\ loc[p].op = "advance"
    /\ loc[p].fabric_status = "Completed"
    /\ loc[p].result = "transitioned" /\ ~loc[p].warned
    /\ loc[p].released = "yes" /\ lock = FreeLock
    /\ runs[loc[p].run_id].status = "SUCCEEDED"
    /\ runs[loc[p].run_id].kpis # NULL
    /\ Len(EventsOf(events, loc[p].run_id)) = 3

\* C14: an Advance (one at a time) on a SUBMITTED run whose poll returns
\* InProgress and whose store writes succeed leaves status RUNNING with
\* started_at set and finished_at NULL, the lock still held by the run, and
\* has appended exactly one event, a STATUS_CHANGE
C14_InProgressScenario ==
  \A p \in Calls :
    (/\ Latest(p) /\ loc[p].op = "advance"
     /\ loc[p].status = "SUBMITTED"
     /\ loc[p].fabric_status = "InProgress"
     /\ loc[p].result = "transitioned" /\ ~loc[p].warned) =>
      LET es == EventsOf(events, loc[p].run_id)
          row == runs[loc[p].run_id]
          since == {i \in DOMAIN es : es[i].event_time >= row.started_at}
      IN
      /\ row.status = "RUNNING"
      /\ row.started_at # NULL
      /\ row.finished_at = NULL
      /\ lock.run_id = loc[p].run_id
      /\ loc[p].released = "none"
      /\ since = {Len(es)}
      /\ es[Len(es)].event_type = "STATUS_CHANGE"
      /\ es[Len(es)].message = "status_changed"

\* The SUBMITTED run of the initial store was polled InProgress: RUNNING,
\* two events in all, the lock as it was
C14_Witness ==
  \E p \in Calls :
    /\ Latest(p) /\ loc[p].op = "advance"
    /\ loc[p].status = "SUBMITTED" /\ loc[p].fabric_status = "InProgress"
    /\ loc[p].result = "transitioned" /\ ~loc[p].warned
    /\ runs[loc[p].run_id].status = "RUNNING"
    /\ runs[loc[p].run_id].started_at > runs[loc[p].run_id].created_at
    /\ Len(EventsOf(events, loc[p].run_id)) = 2
    /\ lock.run_id = loc[p].run_id

\* C15: an Advance call calls release_lock exactly when the mapped status
\* differs from the status it read and is SUCCEEDED or FAILED, and then with
\* the run's own id; a call that changes the status to QUEUED or RUNNING
\* leaves the lock row as it is
C15_ReleaseOnlyOnTerminal ==
  /\ [][\A p \in Calls :
          loc'[p].op = "advance" /\ pc'[p] # pc[p] =>
            /\ pc'[p] = "release" =>
                 /\ loc'[p].new_status \in TerminalStatuses
                 /\ loc'[p].new_status # loc'[p].status
                 /\ loc'[p].fabric_status \in FabricTerminal
            /\ pc[p] # "release" => lock' = lock /\ loc'[p].released = loc[p].released
            /\ pc[p] = "release" =>
                 /\ loc'[p].released \in {"yes", "no", "raised"}
                 /\ loc'[p].released = "yes" <=> lock.run_id = loc[p].run_id /\ lock' = FreeLock
                 /\ loc'[p].released # "yes" => lock' = lock
            /\ loc'[p].new_status \in {"QUEUED", "RUNNING"} => lock' = lock]_vars
  /\ [](\A p \in Calls :
          loc[p].op = "advance" /\ pc[p] = "done" =>
            (loc[p].released # "none") <=>
              /\ loc[p].new_status \in TerminalStatuses
              /\ loc[p].new_status # loc[p].status)

\* One call changed the status to RUNNING and left the lock; the next
\* changed it to FAILED and released the run's lock
C15_Witness ==
  \E p, q \in Calls :
    /\ q < p /\ Latest(p)
    /\ loc[q].op = "advance" /\ loc[q].new_status = "RUNNING"
    /\ loc[q].result = "transitioned" /\ loc[q].released = "none"
    /\ loc[p].op = "advance" /\ loc[p].new_status = "FAILED"
    /\ loc[p].fabric_status \in {"Cancelled", "Deduped"}
    /\ loc[p].released = "yes"
    /\ lock = FreeLock

\* C16: map_fabric_status maps NotStarted to QUEUED, InProgress to RUNNING,
\* Completed to SUCCEEDED, Failed, Cancelled and Deduped to FAILED and every
\* other string to RUNNING; it never returns SUBMITTED
C16_StatusTable ==
  loc[1].op = "map_fabric_status" =>
    LET s == loc[1].fabric_status
        r == loc[1].new_status
    IN
    /\ s = "NotStarted" => r = "QUEUED"
    /\ s = "InProgress" => r = "RUNNING"
    /\ s = "Completed" => r = "SUCCEEDED"
    /\ s \in {"Failed", "Cancelled", "Deduped"} => r = "FAILED"
    /\ s \notin FabricJobStatuses => r = "RUNNING"
    /\ r # "SUBMITTED"
    /\ r \in {"QUEUED", "RUNNING", "SUCCEEDED", "FAILED"}

\* A string outside the table was mapped to RUNNING
C16_Witness ==
  /\ loc[1].op = "map_fabric_status"
  /\ loc[1].fabric_status = "PollError"
  /\ loc[1].new_status = "RUNNING"

\* C17: a Restore of a source run whose status is not SUCCEEDED is refused
\* at the click: no job is submitted, no restore record is inserted and no
\* event is appended; every store or job change of a Restore call is for a
\* source run it saw as SUCCEEDED
C17_RestoreRefused ==
  [][\A p \in Calls :
       loc'[p].op = "restore" /\ pc'[p] # pc[p] =>
         /\ (pc[p] = "idle" /\ loc'[p].run_id # NULL /\ loc'[p].status # "SUCCEEDED") =>
              /\ pc'[p] = "done"
              /\ loc'[p].result = "refused"
              /\ loc'[p].target = NULL
              /\ nextId' = nextId
              /\ store' = store
              /\ job' = job
         /\ (store' # store \/ job' # job) => loc[p].status = "SUCCEEDED"
         /\ loc'[p].status = "SUCCEEDED" => loc'[p].result # "refused"]_vars

\* Restore was clicked for a run that is RUNNING and was refused, with no
\* restore record and no job for it
C17_Witness ==
  \E p \in Calls :
    /\ Latest(p) /\ loc[p].op = "restore" /\ loc[p].result = "refused"
    /\ loc[p].status = "RUNNING"
    /\ runs[loc[p].run_id].status = "RUNNING"
    /\ restores = <<>>
    /\ DOMAIN job = DOMAIN runs

\* C18: a Restore (one at a time) whose job submission failed, the fallback
\* writes succeeding, has inserted one restore record for the source run
\* with target_run_id NULL and then appended a WARNING event to the source run
C18_RestoreFailureRecorded ==
  /\ [](\A p \in Calls :
          (/\ Latest(p) /\ loc[p].op = "restore"
           /\ loc[p].result = "restore_failed"
           /\ loc[p].target \notin DOMAIN job) =>
            LET es == EventsOf(events, loc[p].run_id)
                rec == restores[Len(restores)]
            IN
            /\ Len(restores) >= 1
            /\ rec.source_run_id = loc[p].run_id
            /\ rec.target_run_id = NULL
            /\ rec.restored_by = User(p)
            /\ Len(es) >= 1
            /\ es[Len(es)].event_type = "WARNING"
            /\ rec.restored_at < es[Len(es)].event_time)
  /\ [][\A p \in Calls :
          loc'[p].op = "restore" /\ pc'[p] # pc[p] =>
            /\ pc[p] \notin {"restore_insert", "fallback_insert"} => restores' = restores
            /\ Len(restores') <= Len(restores) + 1
            /\ (pc[p] = "restore_trigger" /\ job' = job) => pc'[p] = "fallback_insert"
            /\ UNCHANGED <<lock, runs>>]_vars

\* A SUCCEEDED run was selected, the trigger failed, and the only restore
\* record is the fallback one, followed by the WARNING event
C18_Witness ==
  \E p \in Calls :
    /\ Latest(p) /\ loc[p].op = "restore" /\ loc[p].result = "restore_failed"
    /\ loc[p].target \notin DOMAIN job
    /\ Len(restores) = 1
    /\ restores[1].target_run_id = NULL
    /\ restores[1].source_run_id = loc[p].run_id
    /\ runs[loc[p].run_id].status = "SUCCEEDED"
    /\ events[Len(events)].event_type = "WARNING"

\* C19: when is_locked raises, no page goes on with the lock taken as free
\* (locked = False)
C19_LockStatusFailsClosed ==
  (/\ loc[1].op \in {"import_page", "monitor_page", "home_page"}
   /\ loc[1].result = "store_error") => loc[1].locked # "no"

\* C20: force_release_lock leaves the lock free whatever row it found, held
\* by any run or already free, and changes no run row, event or restore
\* record
C20_ForceReleaseFrees ==
  [][\A p \in Calls :
       (loc'[p].op = "force_release" /\ pc'[p] # pc[p]) =>
         /\ loc'[p].released \in {"yes", "raised"}
         /\ loc'[p].released = "yes" => lock' = FreeLock
         /\ loc'[p].released = "raised" => lock' = lock
         /\ runs' = runs
         /\ events' = events
         /\ restores' = restores
         /\ job' = job]_vars

\* force_release_lock has cleared the lock of a run that is still active;
\* the run's row and event are as they were
C20_Witness ==
  \E p \in Calls :
    /\ Latest(p) /\ loc[p].op = "force_release" /\ loc[p].released = "yes"
    /\ lock = FreeLock
    /\ \E r \in DOMAIN runs : /\ runs[r].status \in ActiveStatuses
                              /\ Len(EventsOf(events, r)) >= 1

\* C21: a lock held by run R changes only by being cleared, and only by
\* release_lock(R) in the submission-failure path of R's Admit or in an
\* Advance that mapped a terminal status for R, or by force_release_lock;
\* no other Admit, no Restore and no Advance of another run clears or
\* replaces the holder
C21_OnlyOwnReleaseOrForce ==
  [][(lock.run_id # NULL /\ lock' # lock) =>
       /\ lock' = FreeLock
       /\ \E p \in Calls :
            /\ pc'[p] # pc[p]
            /\ \/ /\ loc[p].op = "admit"
                  /\ pc[p] = "release_on_fail"
                  /\ loc[p].run_id = lock.run_id
               \/ /\ loc[p].op = "advance"
                  /\ pc[p] = "release"
                  /\ loc[p].run_id = lock.run_id
                  /\ loc[p].new_status \in TerminalStatuses
               \/ loc'[p].op = "force_release"]_vars

\* Run R holds the lock and is RUNNING after an Advance; an Admit by
\* another caller has ended in contention
C21_Witness ==
  \E p, q \in Calls :
    /\ loc[p].op = "advance" /\ loc[p].result = "transitioned"
    /\ loc[p].new_status = "RUNNING"
    /\ loc[q].op = "admit" /\ loc[q].result = "contention"
    /\ lock.run_id = loc[p].run_id
    /\ runs[lock.run_id].status = "RUNNING"

\* C22: every persisted status change of a run moves forward along
\* SUBMITTED -> QUEUED -> RUNNING -> {SUCCEEDED | FAILED}
C22_StatusMovesForward ==
  [][LET rank(status) == CASE status = "SUBMITTED" -> 1
                           [] status = "QUEUED" -> 2
                           [] status = "RUNNING" -> 3
                           [] OTHER -> 4
     IN \A r \in DOMAIN runs :
          runs'[r].status # runs[r].status =>
            rank(runs'[r].status) > rank(runs[r].status)]_vars

\* C23: in a quiescent state (no Admit or Advance call in progress; here,
\* moreover, after calls none of whose store or job-client calls failed)
\* the lock is held if and only if some run is active, and it is held by
\* that run
C23_LockIffActiveRun ==
  (\A p \in Calls :
     loc[p].op \in {"admit", "advance"} =>
       /\ pc[p] = "done"
       /\ loc[p].result \in {"ok", "contention", "transitioned", "unchanged",
                             "not_active", "no_url"}
       /\ ~loc[p].warned
       /\ loc[p].released # "raised"
       /\ loc[p].fabric_status \notin {"PollError", "Unknown"}) =>
    LET active == {r \in DOMAIN runs : runs[r].status \in ActiveStatuses} IN
    /\ (lock.run_id # NULL) <=> (active # {})
    /\ \A r \in active : lock.run_id = r

\* C24: when the run row or the submitted event could not be written after
\* trigger_pipeline succeeded, the Admit call does not release the lock and
\* does not report failure: the lock stays held by the new run id and the
\* caller gets the success result with a warning
C24_PersistFailureKeepsLock ==
  \A p \in Calls :
    (/\ Latest(p)
     /\ loc[p].op = "admit"
     /\ loc[p].run_id \in DOMAIN job
     /\ \/ loc[p].run_id \notin DOMAIN runs
        \/ \A i \in DOMAIN events : events[i].run_id # loc[p].run_id) =>
      /\ loc[p].result = "ok"
      /\ loc[p].warned
      /\ loc[p].released = "none"
      /\ lock.run_id = loc[p].run_id

C24_Witness ==
  \E p \in Calls :
    /\ Latest(p)
    /\ loc[p].op = "admit"
    /\ loc[p].result = "ok"
    /\ loc[p].warned
    /\ loc[p].run_id \in DOMAIN job
    /\ loc[p].run_id \notin DOMAIN runs
    /\ lock.run_id = loc[p].run_id

\* C25: when update_run_status or the status-change append_event fails in an
\* Advance call that detected a change, the caller gets a warning, the call
\* goes on to the KPI step (new status SUCCEEDED) or the lock-release step
\* (new status terminal) of the new status, and it reports the transition
C25_StatusWriteFailureContinues ==
  /\ [][\A p \in Calls :
          (pc[p] = "update" /\ runs' = runs) \/
          (pc[p] = "status_event" /\ events' = events) =>
            /\ loc'[p].warned
            /\ pc'[p] = (IF loc[p].new_status = "SUCCEEDED" THEN "kpi"
                         ELSE IF loc[p].new_status \in TerminalStatuses
                                THEN "release" ELSE "done")
            /\ pc'[p] = "done" => loc'[p].result = "transitioned"]_vars
  /\ [](\A p \in Calls :
          (Latest(p) /\ loc[p].op = "advance" /\ loc[p].warned) =>
            /\ loc[p].result = "transitioned"
            /\ loc[p].new_status \in TerminalStatuses => loc[p].released # "none")

C25_Witness ==
  \E p \in Calls :
    /\ Latest(p)
    /\ loc[p].op = "advance"
    /\ loc[p].warned
    /\ loc[p].result = "transitioned"
    /\ loc[p].new_status = "SUCCEEDED"
    /\ loc[p].released = "yes"
    /\ runs[loc[p].run_id].status # "SUCCEEDED"
    /\ lock.run_id = NULL

\* C26 as stated: once release_lock raised in the terminal step of an
\* Advance call of run R, the lock held by R changes only by
\* force_release_lock
C26_HeldUntilForceRelease ==
  [][\A p \in Calls :
       (/\ pc[p] = "done"
        /\ loc[p].op = "advance"
        /\ loc[p].released = "raised"
        /\ lock.run_id = loc[p].run_id
        /\ lock' # lock) =>
         \E q \in Calls : pc'[q] # pc[q] /\ loc'[q].op = "force_release"]_vars

\* C26: when release_lock raises in the terminal step of an Advance call of
\* run R, the caller gets a warning with the transition report, the step
\* leaves the stored status and the lock as they are, and the lock held by
\* R is afterwards freed only by force_release_lock or by the release step
\* of another Advance call of R that mapped a terminal status; when R's
\* terminal status is stored and no other Advance call of R is under way,
\* only force_release_lock frees it
C26_ReleaseFailureKeepsLock ==
  /\ [][\A p \in Calls :
          /\ (pc[p] = "release" /\ loc'[p].released = "raised") =>
               /\ loc'[p].warned
               /\ loc'[p].result = "transitioned"
               /\ runs' = runs
               /\ lock' = lock
          /\ (/\ pc[p] = "done"
              /\ loc[p].op = "advance"
              /\ loc[p].released = "raised"
              /\ lock.run_id = loc[p].run_id
              /\ lock' # lock) =>
               /\ lock' = FreeLock
               /\ \E q \in Calls :
                    /\ pc'[q] # pc[q]
                    /\ \/ loc'[q].op = "force_release"
                       \/ /\ loc[q].op = "advance"
                          /\ pc[q] = "release"
                          /\ loc[q].run_id = lock.run_id
                          /\ loc[q].new_status \in TerminalStatuses
               /\ (/\ runs[loc[p].run_id].status \in TerminalStatuses
                   /\ \A q \in Calls \ {p} :
                        loc[q].op = "advance" /\ loc[q].run_id = loc[p].run_id
                          => pc[q] = "done") =>
                    \E q \in Calls :
                      pc'[q] # pc[q] /\ loc'[q].op = "force_release"]_vars
  /\ [](\A p \in Calls :
          (pc[p] = "done" /\ loc[p].op = "advance" /\ loc[p].released = "raised") =>
            loc[p].warned /\ loc[p].result = "transitioned")

\* release_lock raised in an Advance call of run R whose terminal status is
\* stored; a later Admit call found the lock still held by R
C26_Witness ==
  \E p, q \in Calls :
    /\ loc[p].op = "advance" /\ pc[p] = "done"
    /\ loc[p].released = "raised" /\ loc[p].warned
    /\ runs[loc[p].run_id].status \in TerminalStatuses
    /\ lock.run_id = loc[p].run_id
    /\ loc[q].op = "admit" /\ loc[q].result = "contention"

\* C27: when fetching or persisting the KPI snapshot fails in an Advance
\* call that reached SUCCEEDED, the step raises no warning or error, leaves
\* the stored status and the lock as they are and is followed by the lock
\* release; the call returns with the transition reported, the stored status
\* SUCCEEDED and the run's lock released (by this call, or found released)
C27_KpiFailureAbsorbed ==
  /\ [][\A p \in Calls :
          (\/ pc[p] = "kpi" /\ loc'[p].kpis_data = NULL
           \/ pc[p] = "kpi_update" /\ runs' = runs) =>
            /\ pc'[p] = "release"
            /\ loc'[p].warned = loc[p].warned
            /\ loc'[p].result = "none"
            /\ store' = store]_vars
  /\ [](\A p \in Calls :
          (/\ Latest(p)
           /\ loc[p].op = "advance"
           /\ loc[p].new_status = "SUCCEEDED"
           /\ ~loc[p].warned) =>
             /\ loc[p].result = "transitioned"
             /\ runs[loc[p].run_id].status = "SUCCEEDED"
             /\ loc[p].released \in {"yes", "no"}
             /\ lock.run_id # loc[p].run_id)

C27_Witness ==
  \E p \in Calls :
    /\ Latest(p)
    /\ loc[p].op = "advance"
    /\ loc[p].new_status = "SUCCEEDED"
    /\ loc[p].result = "transitioned"
    /\ ~loc[p].warned
    /\ runs[loc[p].run_id].status = "SUCCEEDED"
    /\ runs[loc[p].run_id].kpis = NULL
    /\ loc[p].released = "yes"
    /\ lock.run_id = NULL

\* C28: with no failing store or job-client call and Refresh Status clicked
\* again and again, a recorded active run whose job can be polled and has
\* ended (Completed, Failed, Cancelled or Deduped) eventually has a terminal
\* stored status while the lock is free
C28_TerminalJobEndsRun ==
  \A r \in 1..MaxOps :
    (/\ r \in DOMAIN runs
     /\ runs[r].status \in ActiveStatuses
     /\ runs[r].fabric_job_location_url # ""
     /\ job[r] \in FabricTerminal)
      ~> (/\ r \in DOMAIN runs
          /\ runs[r].status \in TerminalStatuses
          /\ lock.run_id = NULL)

\* A Refresh Status call found the job of its run ended, stored the
\* terminal status and released the lock
C28_Witness ==
  \E p \in Calls :
    /\ Latest(p)
    /\ loc[p].op = "advance"
    /\ loc[p].result = "transitioned"
    /\ loc[p].released = "yes"
    /\ job[loc[p].run_id] \in FabricTerminal
    /\ runs[loc[p].run_id].status \in TerminalStatuses
    /\ lock.run_id = NULL

\* C29: within an Admit call trigger_pipeline is called only after
\* acquire_lock returned true and the run row is inserted only after
\* trigger_pipeline returned; every run row belongs to a run id whose job
\* was submitted
C29_SubmitAfterAcquireRowAfterSubmit ==
  /\ [][\A p \in Calls :
          /\ pc[p] = "trigger" =>
               loc[p].acquired = "yes" /\ lock.run_id = loc[p].run_id
          /\ (loc[p].op = "admit" /\ loc[p].run_id \in DOMAIN job' \ DOMAIN job) =>
               pc[p] = "trigger"
          /\ (loc[p].op = "admit" /\ loc[p].run_id \in DOMAIN runs' \ DOMAIN runs) =>
               pc[p] = "insert" /\ loc[p].run_id \in DOMAIN job]_vars
  /\ [](/\ DOMAIN runs \subseteq DOMAIN job
        /\ \A p \in Calls :
             (loc[p].op = "admit" /\ loc[p].acquired # "yes") =>
               loc[p].run_id \notin DOMAIN job)

\* An Admit call acquired the lock, submitted the job and inserted the row
C29_Witness ==
  \E p \in Calls :
    /\ Latest(p)
    /\ loc[p].op = "admit"
    /\ loc[p].acquired = "yes"
    /\ loc[p].result = "ok"
    /\ loc[p].run_id \in DOMAIN job
    /\ loc[p].run_id \in DOMAIN runs

\* C30: an Advance call on a run whose stored job handle is empty makes no
\* job-client request and no store write (runs, events and lock unchanged)
\* and ends by reporting an error
C30_EmptyHandleNotPolled ==
  [][\A p \in Calls :
       (/\ loc'[p].op = "advance"
        /\ pc'[p] # pc[p]
        /\ loc'[p].run_id \in DOMAIN runs
        /\ runs[loc'[p].run_id].status \in ActiveStatuses
        /\ runs[loc'[p].run_id].fabric_job_location_url = "") =>
         /\ pc[p] = "idle"
         /\ pc'[p] = "done"
         /\ loc'[p].result = "no_url"
         /\ loc'[p].fabric_status = "none"
         /\ store' = store
         /\ job' = job]_vars

\* A Refresh Status click on an active run that was stored without a
\* Location URL has ended with the error and the run is as it was
C30_Witness ==
  \E p \in Calls :
    /\ Latest(p)
    /\ loc[p].op = "advance"
    /\ loc[p].result = "no_url"
    /\ runs[loc[p].run_id].status = "SUBMITTED"
    /\ runs[loc[p].run_id].fabric_job_location_url = ""
    /\ lock.run_id = loc[p].run_id
    /\ job[loc[p].run_id] = "NotStarted"

\* C31: Advance acts only on a run whose stored status is SUBMITTED, QUEUED
\* or RUNNING: on a run whose stored status is terminal a Refresh Status
\* call issues no poll and writes no run row, and a call that starts on
\* such a run ends at once with the store as it was
C31_AdvanceOnlyOnActiveRun ==
  [][\A p \in Calls :
       /\ (/\ pc[p] = "idle"
           /\ loc'[p].op = "advance"
           /\ loc'[p].run_id \in DOMAIN runs
           /\ runs[loc'[p].run_id].status \in TerminalStatuses) =>
            /\ pc'[p] = "done"
            /\ loc'[p].result = "not_active"
            /\ store' = store
            /\ job' = job
       /\ (pc[p] = "poll" /\ pc'[p] # "poll") =>
            runs[loc[p].run_id].status \in ActiveStatuses
       /\ (pc[p] = "update" /\ runs' # runs) =>
            runs[loc[p].run_id].status \in ActiveStatuses]_vars

\* C32: a lock-released event is appended for a run only by an
\* Advance call whose release_lock(run_id) returned true, and each run has
\* at most one such event
C32_LockEventOnlyAfterTrueRelease ==
  /\ [][\A p \in Calls :
          (/\ pc[p] = "lock_event"
           /\ Len(events') = Len(events) + 1
           /\ events'[Len(events')].message = "lock_released") =>
            loc[p].released = "yes"]_vars
  /\ [](\A r \in DOMAIN runs :
          Cardinality({i \in DOMAIN events :
                         /\ events[i].run_id = r
                         /\ events[i].message = "lock_released"}) <= 1)

\* C33: a Restore (one at a time) of a SUCCEEDED run whose job submission
\* and store writes succeeded has inserted exactly one restore record, with
\* source_run_id the source run and target_run_id the freshly generated run
\* id, and then appended one LOG event to the source run
C33_RestoreSuccessRecorded ==
  \A p \in Calls :
    (Latest(p) /\ loc[p].op = "restore" /\ loc[p].result = "restored") =>
      LET mine == {i \in DOMAIN restores : restores[i].restored_by = User(p)}
          rec == restores[Len(restores)]
          after == {i \in DOMAIN events : events[i].event_time > rec.restored_at}
      IN
      /\ loc[p].status = "SUCCEEDED"
      /\ loc[p].target \in DOMAIN job
      /\ mine = {Len(restores)}
      /\ rec.source_run_id = loc[p].run_id
      /\ rec.target_run_id = loc[p].target
      /\ after = {Len(events)}
      /\ events[Len(events)].run_id = loc[p].run_id
      /\ events[Len(events)].event_type = "LOG"
      /\ events[Len(events)].message = "restore_triggered"

C33_Witness ==
  \E p \in Calls :
    /\ Latest(p) /\ loc[p].op = "restore" /\ loc[p].result = "restored"
    /\ runs[loc[p].run_id].status = "SUCCEEDED"
    /\ Len(restores) = 1
    /\ restores[1].source_run_id = loc[p].run_id
    /\ restores[1].target_run_id = loc[p].target
    /\ events[Len(events)].message = "restore_triggered"

\* C34: a Restore call inserts at most one restore record, whichever of its
\* steps fails
C34_AtMostOneRestoreRecord ==
  \A p \in Calls :
    loc[p].op = "restore" =>
      Cardinality({i \in DOMAIN restores :
                     /\ restores[i].restored_by = User(p)
                     /\ restores[i].source_run_id = loc[p].run_id}) <= 1

\* C35: the target run id stored in a restore record identifies a run row
\* of pipeline_runs
C35_RestoreTargetIsTrackedRun ==
  \A i \in DOMAIN restores :
    restores[i].target_run_id # NULL => restores[i].target_run_id \in DOMAIN runs

\* C36: Restore leaves the run lock as it is, whether it succeeds or fails,
\* and is not gated by it: it submits its job also while another run holds
\* the lock
C36_RestoreIgnoresLock ==
  [][\A p \in Calls :
       (loc'[p].op = "restore" /\ pc'[p] # pc[p]) =>
         /\ lock' = lock
         /\ (pc[p] = "idle" /\ loc'[p].run_id \in DOMAIN runs) =>
              (pc'[p] = "restore_trigger" <=>
                 runs[loc'[p].run_id].status = "SUCCEEDED")
         /\ pc[p] = "restore_trigger" =>
              (job' # job <=> pc'[p] = "restore_insert")]_vars

\* A Restore submitted its job and succeeded while the lock was held by
\* another, still active run
C36_Witness ==
  \E p \in Calls :
    /\ loc[p].op = "restore" /\ loc[p].result = "restored"
    /\ loc[p].target \in DOMAIN job
    /\ lock.run_id # NULL
    /\ lock.run_id # loc[p].run_id
    /\ lock.run_id # loc[p].target
    /\ lock.run_id \in DOMAIN runs
    /\ runs[lock.run_id].status \in ActiveStatuses

\* C37: get_events(run_id) returns all events of the run, each once, in
\* non-decreasing event_time order; no step updates or deletes an event:
\* the events of a run only grow, by rows appended at the end
C37_EventsOrderedAndAppendOnly ==
  /\ [](\A r \in DOMAIN runs :
          /\ get_events(events, r) # {}
          /\ \A es \in get_events(events, r) :
               /\ Len(es) = Len(EventsOf(events, r))
               /\ \A i \in DOMAIN events :
                    events[i].run_id = r =>
                      Cardinality({k \in DOMAIN es : es[k] = events[i]}) = 1
               /\ \A k \in DOMAIN es : es[k].run_id = r
               /\ \A j, k \in DOMAIN es :
                    j < k => es[j].event_time <= es[k].event_time)
  /\ [][/\ Len(events') >= Len(events)
        /\ SubSeq(events', 1, Len(events)) = events]_vars

\* A run has three events or more, written at different times, and
\* get_events returns them oldest first
C37_Witness ==
  \E r \in DOMAIN runs :
    /\ Len(EventsOf(events, r)) >= 3
    /\ \E es \in get_events(events, r) :
         /\ es[1].event_time < es[2].event_time
         /\ es[2].event_time < es[3].event_time
         /\ es[1].message = "submitted"

\* C38: update_run_status changes, in the row of its run_id, only status,
\* the timestamp that belongs to the new status (started_at for RUNNING,
\* finished_at for SUCCEEDED and FAILED) and those of error_message,
\* fabric_job_id and kpis that are passed non-null; every other column of
\* the row and every other row stay as they are
C38_UpdateTouchesOnlyGivenColumns ==
  [][loc'[1].op = "update_run_status" /\ ops' = ops + 1 =>
       LET a == loc'[1] IN
       /\ DOMAIN runs' = DOMAIN runs
       /\ \A r \in DOMAIN runs : r # a.run_id => runs'[r] = runs[r]
       /\ a.run_id \in DOMAIN runs =>
            LET old == runs[a.run_id]
                new == runs'[a.run_id]
            IN
            /\ new.status = a.new_status
            /\ new.started_at = IF a.new_status = "RUNNING" THEN now
                                ELSE old.started_at
            /\ new.finished_at = IF a.new_status \in {"SUCCEEDED", "FAILED"}
                                   THEN now ELSE old.finished_at
            /\ new.error_message = IF a.error_message # NULL THEN a.error_message
                                   ELSE old.error_message
            /\ new.fabric_job_id = IF a.fabric_job_id # NULL THEN a.fabric_job_id
                                   ELSE old.fabric_job_id
            /\ new.kpis = IF a.kpis_data # NULL THEN a.kpis_data ELSE old.kpis
            /\ new.run_id = old.run_id
            /\ new.created_at = old.created_at
            /\ new.triggered_by = old.triggered_by
            /\ new.fabric_job_location_url = old.fabric_job_location_url
            /\ DOMAIN new = DOMAIN old]_vars

\* A second update of run 1, with status FAILED and no optional argument,
\* has kept the fabric_job_id, kpis and started_at that the first one wrote
C38_Witness ==
  /\ loc[1].op = "update_run_status"
  /\ loc[1].run_id = 1
  /\ loc[1].new_status = "FAILED"
  /\ loc[1].fabric_job_id = NULL
  /\ loc[1].kpis_data = NULL
  /\ loc[1].error_message = NULL
  /\ runs[1].status = "FAILED"
  /\ runs[1].fabric_job_id = 1
  /\ runs[1].kpis = 1
  /\ runs[1].started_at # NULL
  /\ runs[1].finished_at > runs[1].started_at
  /\ runs[2] = insert_pipeline_run(2, 2, "url", "SUBMITTED", 2)

\* C39: poll_until_done ends after at most max_polls polls: it returns the
\* first poll result whose status is Completed, Failed, Cancelled or
\* Deduped, and when no poll gave such a status (and none raised) it returns
\* status Timeout after exactly max_polls polls
C39_PollUntilDoneBounded ==
  /\ [](loc[1].op = "poll_until_done" =>
          /\ ops <= loc[1].target
          /\ (pc[1] = "loop" /\ ops > 0) => loc[1].fabric_status \notin FabricTerminal
          /\ (pc[1] = "done" /\ loc[1].result = "returned") =>
               \/ loc[1].fabric_status \in FabricTerminal /\ ops >= 1
               \/ loc[1].fabric_status = "Timeout" /\ ops = loc[1].target)
  /\ [][(pc[1] = "loop" /\ ops' = ops + 1
           /\ loc'[1].fabric_status \in FabricTerminal) =>
          /\ pc'[1] = "done"
          /\ loc'[1].result = "returned"
          /\ loc'[1].fabric_status = job'[1]]_vars
  /\ (loc[1].op = "poll_until_done" ~> pc[1] = "done")

\* poll_until_done with max_polls = MaxPolls has polled a job that was
\* still running at every poll and has returned Timeout
C39_Witness ==
  /\ loc[1].op = "poll_until_done"
  /\ pc[1] = "done"
  /\ loc[1].result = "returned"
  /\ loc[1].fabric_status = "Timeout"
  /\ loc[1].target = MaxPolls
  /\ ops = MaxPolls
  /\ job[1] = "InProgress"
====
